---- MODULE Spec2Model ----
(***************************************************************************)
(* A state-machine model of scripts/fdp_stats.cc: the FEMU FDP statistics  *)
(* tool.  main() is one sequential process; pc is its position.  Calls     *)
(* into libxnvme (device open, queue init/term, buffer alloc/free, command *)
(* submission, drain) are steps of main whose outcome (success or error,   *)
(* completion status, device-written data) is an input chosen with \E.     *)
(* The completion callback async_cb is a step of its own that runs while   *)
(* main is inside xnvme_queue_drain.                                       *)
(***************************************************************************)
EXTENDS Integers, Sequences, FiniteSets, TLC

\* ---------------------------------------------------------------- constants
MAX_NR_QUEUE == 128
NVME_IOMS_MO_SUNGJIN == 2
NVME_IOMS_MO_SUNGJIN_READONLY == 16
RUHSS_LEN == 16
mos == 1
qdepth == MAX_NR_QUEUE

\* ------------------------------------------------------------------- bounds
MaxArgc == 4
MaxNsid == 2
MaxNruhsd == 18

Queues == 0 .. (MAX_NR_QUEUE - 1)
Flags == {"--reset", "--read-only", "-h", "--help", "--bogus"}
\* a library call reports failure with a negative errno value
ErrCodes == {-5}
\* values the 16-bit descriptor count may hold when it is read
NruhsdValues == (0 .. MaxNruhsd) \cup {200, 65535}
\* completion status carried by a completed context
CplStatuses == {0, 1}

VARIABLES
    pc,             \* position of main
    argc, argv2,    \* the argument vector: its length and argv[2] ("" if absent)
    usage,          \* number of print_usage calls
    mo,             \* management operation code selected
    exitCode,       \* value returned by main (-1 while running)
    dev_,           \* "null" | "open" | "closed"
    fatal,          \* the setup step that failed: "none" | "open" | "qinit" | "alloc"
    devOpens,       \* number of xnvme_dev_open calls
    nsid,           \* namespace id read from the device (0 before the read)
    i,              \* loop index of the loop main is in
    queues_,        \* queues_[k]: "null" | "live" | "termed"
    xnvme_queues_,  \* FIFO of available queues
    outstanding,    \* per queue: commands accepted and not yet completed
    pool,           \* per queue: free command contexts in its pool
    termCount,      \* per queue: xnvme_queue_term calls made on it
    anyTermErr,     \* some xnvme_queue_term of the cleanup loop returned an error
    xqueue,         \* the queue taken from the FIFO (-1 before)
    ctx,            \* the command context main works with
    gets, puts,     \* xnvme_queue_get_cmd_ctx / xnvme_queue_put_cmd_ctx calls
    binds,          \* times callback, argument and device were attached
    cbCalls,        \* invocations of async_cb
    prCalls,        \* xnvme_cmd_ctx_pr calls (the report of a failed command)
    completions,    \* in-flight -> completed transitions observed
    buf,            \* "none" | "live" | "freed"
    bufFrees,       \* xnvme_buf_free calls
    err,            \* main's err variable
    submitted,      \* the commands handed to xnvme_nvm_mgmt_send, in order
    sendRes,        \* "none" | "accepted" | "rejected"
    drainRes,       \* "none" | "ok" | "err"
    nruhsd,         \* ruh_status.nruhsd as read by the decoder (-1 before)
    visited         \* descriptor slots the decode loop has read, in order

argvars == <<argc, argv2>>
qvars == <<queues_, xnvme_queues_, outstanding, pool, termCount, anyTermErr>>
ctxvars == <<xqueue, ctx, gets, puts, binds, cbCalls, prCalls, completions>>
cmdvars == <<submitted, sendRes, drainRes>>
decvars == <<nruhsd, visited>>
bufvars == <<buf, bufFrees>>
devvars == <<dev_, devOpens, nsid>>

vars == <<pc, argc, argv2, usage, mo, exitCode, dev_, fatal, devOpens, nsid, i,
          queues_, xnvme_queues_, outstanding, pool, termCount, anyTermErr,
          xqueue, ctx, gets, puts, binds, cbCalls, prCalls, completions, buf,
          bufFrees,
          err, submitted, sendRes, drainRes, nruhsd, visited>>

NoCtx == [state |-> "free", cb |-> FALSE, cb_arg |-> -1, dev |-> FALSE, status |-> 0]

Init ==
    /\ pc = "start"
    /\ argc \in 1 .. MaxArgc
    /\ argv2 \in (IF argc >= 3 THEN Flags ELSE {""})
    /\ usage = 0
    /\ mo = 0
    /\ exitCode = -1
    /\ dev_ = "null"
    /\ fatal = "none"
    /\ devOpens = 0
    /\ nsid = 0
    /\ i = 0
    /\ queues_ = [k \in Queues |-> "null"]
    /\ xnvme_queues_ = <<>>
    /\ outstanding = [k \in Queues |-> 0]
    /\ pool = [k \in Queues |-> 0]
    /\ termCount = [k \in Queues |-> 0]
    /\ anyTermErr = FALSE
    /\ xqueue = -1
    /\ ctx = NoCtx
    /\ gets = 0
    /\ puts = 0
    /\ binds = 0
    /\ cbCalls = 0
    /\ prCalls = 0
    /\ completions = 0
    /\ buf = "none"
    /\ bufFrees = 0
    /\ err = 0
    /\ submitted = <<>>
    /\ sendRes = "none"
    /\ drainRes = "none"
    /\ nruhsd = -1
    /\ visited = <<>>

\* return <code>; from main
Return(code) ==
    /\ pc' = "exit"
    /\ exitCode' = code

\* ------------------------------------------------------- argument parsing
\* ParseFlag with an unrecognised flag ignored instead of rejected
ParseFlagLenient(flag) ==
    IF flag = "--read-only"
    THEN [mo |-> NVME_IOMS_MO_SUNGJIN_READONLY, exit |-> -1, usage |-> 0]
    ELSE IF flag = "-h" \/ flag = "--help"
         THEN [mo |-> NVME_IOMS_MO_SUNGJIN, exit |-> 0, usage |-> 1]
    ELSE [mo |-> NVME_IOMS_MO_SUNGJIN, exit |-> -1, usage |-> 0]

\* ParseFlag with --read-only selecting the code of --reset
ParseFlagSameCode(flag) ==
    IF flag = "--reset" \/ flag = "--read-only"
    THEN [mo |-> NVME_IOMS_MO_SUNGJIN, exit |-> -1, usage |-> 0]
    ELSE IF flag = "-h" \/ flag = "--help"
         THEN [mo |-> NVME_IOMS_MO_SUNGJIN, exit |-> 0, usage |-> 1]
    ELSE [mo |-> NVME_IOMS_MO_SUNGJIN, exit |-> 1, usage |-> 1]

\* lines 68-83: the optional flag selects the operation code or ends the run
ParseFlag(flag) ==
    IF flag = "--reset" THEN [mo |-> NVME_IOMS_MO_SUNGJIN, exit |-> -1, usage |-> 0]
    ELSE IF flag = "--read-only"
         THEN [mo |-> NVME_IOMS_MO_SUNGJIN_READONLY, exit |-> -1, usage |-> 0]
    ELSE IF flag = "-h" \/ flag = "--help"
         THEN [mo |-> NVME_IOMS_MO_SUNGJIN, exit |-> 0, usage |-> 1]
    ELSE [mo |-> NVME_IOMS_MO_SUNGJIN, exit |-> 1, usage |-> 1]

ParseArgs ==
    /\ pc = "start"
    /\ IF argc < 2 \/ argc > 3
       THEN /\ usage' = usage + 1
            /\ Return(1)
            /\ mo' = mo
       ELSE IF argc = 3
       THEN LET r == ParseFlag(argv2) IN
            /\ mo' = r.mo
            /\ usage' = usage + r.usage
            /\ IF r.exit >= 0 THEN Return(r.exit)
               ELSE pc' = "open" /\ exitCode' = exitCode
       ELSE /\ mo' = NVME_IOMS_MO_SUNGJIN
            /\ usage' = usage
            /\ pc' = "open"
            /\ exitCode' = exitCode
    /\ UNCHANGED <<fatal, argvars, devvars, i, qvars, ctxvars, bufvars, err, cmdvars, decvars>>

\* ------------------------------------------------------------ device open
DevOpen ==
    /\ pc = "open"
    /\ devOpens' = devOpens + 1
    /\ \E ok \in BOOLEAN :
         IF ok
         THEN /\ dev_' = "open"
              /\ fatal' = fatal
              /\ pc' = "qinit"
              /\ exitCode' = exitCode
         ELSE /\ dev_' = "null"
              /\ fatal' = "open"
              /\ Return(1)
    /\ i' = 0
    /\ UNCHANGED <<argvars, usage, mo, nsid, qvars, ctxvars, bufvars, err, cmdvars, decvars>>

\* ----------------------------------------------------- queue initialisation
\* QueueInit without the push of the new queue onto the FIFO (line 128)
QueueInitNoPush ==
    /\ pc = "qinit"
    /\ i < MAX_NR_QUEUE
    /\ \E e \in {0} \cup ErrCodes :
         /\ err' = e
         /\ IF e # 0
            THEN /\ dev_' = "closed"
                 /\ fatal' = "qinit"
                 /\ Return(1)
                 /\ UNCHANGED <<i, queues_, pool>>
            ELSE /\ queues_' = [queues_ EXCEPT ![i] = "live"]
                 /\ pool' = [pool EXCEPT ![i] = qdepth]
                 /\ i' = i + 1
                 /\ pc' = IF i + 1 < MAX_NR_QUEUE THEN "qinit" ELSE "alloc"
                 /\ UNCHANGED <<dev_, fatal, exitCode>>
    /\ UNCHANGED <<argvars, usage, mo, devOpens, nsid, xnvme_queues_, outstanding,
                   termCount, anyTermErr, ctxvars, bufvars, cmdvars, decvars>>

\* one iteration of the loop of lines 120-129
QueueInit ==
    /\ pc = "qinit"
    /\ i < MAX_NR_QUEUE
    /\ \E e \in {0} \cup ErrCodes :
         /\ err' = e
         /\ IF e # 0
            THEN /\ dev_' = "closed"
                 /\ fatal' = "qinit"
                 /\ Return(1)
                 /\ UNCHANGED <<i, queues_, xnvme_queues_, pool>>
            ELSE /\ queues_' = [queues_ EXCEPT ![i] = "live"]
                 /\ pool' = [pool EXCEPT ![i] = qdepth]
                 /\ xnvme_queues_' = Append(xnvme_queues_, i)
                 /\ i' = i + 1
                 /\ pc' = IF i + 1 < MAX_NR_QUEUE THEN "qinit" ELSE "alloc"
                 /\ UNCHANGED <<dev_, fatal, exitCode>>
    /\ UNCHANGED <<argvars, usage, mo, devOpens, nsid, outstanding, termCount,
                   anyTermErr, ctxvars, bufvars, cmdvars, decvars>>

\* ------------------------------------------------------- buffer allocation
\* BufAlloc with the failure branch closing the device at once, the queues
\* left unterminated (the shape of the queue-init failure branch)
BufAllocNoTerm ==
    /\ pc = "alloc"
    /\ \E ok \in BOOLEAN :
         IF ok
         THEN /\ buf' = "live"
              /\ fatal' = fatal
              /\ pc' = "getctx"
              /\ i' = i
         ELSE /\ buf' = buf
              /\ fatal' = "alloc"
              /\ pc' = "allocfailclose"
              /\ i' = 0
    /\ UNCHANGED <<argvars, usage, mo, exitCode, devvars, qvars, ctxvars, bufFrees,
                   err, cmdvars, decvars>>

\* lines 132-135: on failure main enters the termination loop of lines 136-138
BufAlloc ==
    /\ pc = "alloc"
    /\ \E ok \in BOOLEAN :
         IF ok
         THEN /\ buf' = "live"
              /\ fatal' = fatal
              /\ pc' = "getctx"
              /\ i' = i
         ELSE /\ buf' = buf
              /\ fatal' = "alloc"
              /\ pc' = "allocfail"
              /\ i' = 0
    /\ UNCHANGED <<argvars, usage, mo, exitCode, devvars, qvars, ctxvars, bufFrees,
                   err, cmdvars, decvars>>

\* AfterTerm leaving the loop at the first failing termination
AfterTermBreak(k, e) == IF e # 0 THEN MAX_NR_QUEUE ELSE k + 1

\* the index the termination loops move to after xnvme_queue_term returned e
AfterTerm(k, e) == k + 1

\* one iteration of the loop of lines 136-138; the result is discarded
AllocFailTerm ==
    /\ pc = "allocfail"
    /\ i < MAX_NR_QUEUE
    /\ \E e \in {0} \cup ErrCodes :
         /\ anyTermErr' = (anyTermErr \/ e # 0)
         /\ i' = AfterTerm(i, e)
    /\ termCount' = [termCount EXCEPT ![i] = @ + 1]
    /\ queues_' = [queues_ EXCEPT ![i] = "termed"]
    /\ pc' = IF i' < MAX_NR_QUEUE THEN "allocfail" ELSE "allocfailclose"
    /\ UNCHANGED <<fatal, argvars, usage, mo, exitCode, devvars, xnvme_queues_, outstanding,
                   pool, ctxvars, bufvars, err, cmdvars, decvars>>

\* lines 139-140
AllocFailClose ==
    /\ pc = "allocfailclose"
    /\ dev_' = "closed"
    /\ Return(1)
    /\ UNCHANGED <<fatal, argvars, usage, mo, devOpens, nsid, i, qvars, ctxvars, bufvars,
                   err, cmdvars, decvars>>

\* --------------------------------------------------- context acquisition
\* GetCtx taking the queue at the back of the FIFO (back() for front())
GetCtxBack ==
    /\ pc = "getctx"
    /\ IF xnvme_queues_ = <<>> \/ pool[xnvme_queues_[Len(xnvme_queues_)]] = 0
       THEN /\ pc' = "crash"
            /\ UNCHANGED <<xqueue, xnvme_queues_, pool, ctx, gets, binds, nsid>>
       ELSE LET q == xnvme_queues_[Len(xnvme_queues_)] IN
            /\ xqueue' = q
            /\ xnvme_queues_' = Tail(xnvme_queues_)
            /\ pool' = [pool EXCEPT ![q] = @ - 1]
            /\ gets' = gets + 1
            /\ ctx' = [state |-> "bound", cb |-> TRUE, cb_arg |-> q, dev |-> TRUE,
                       status |-> 0]
            /\ binds' = binds + 1
            /\ \E n \in 1 .. MaxNsid : nsid' = n
            /\ pc' = "send"
    /\ UNCHANGED <<fatal, argvars, usage, mo, exitCode, dev_, devOpens, i, queues_,
                   outstanding, termCount, anyTermErr, puts, cbCalls, prCalls, completions,
                   bufvars, err, cmdvars, decvars>>

\* lines 143-152: take the front queue, get a context from it, attach the
\* callback, its argument and the device, read the namespace id.  front() of
\* an empty FIFO and the dereference of a null context are undefined.
GetCtx ==
    /\ pc = "getctx"
    /\ IF xnvme_queues_ = <<>> \/ pool[Head(xnvme_queues_)] = 0
       THEN /\ pc' = "crash"
            /\ UNCHANGED <<xqueue, xnvme_queues_, pool, ctx, gets, binds, nsid>>
       ELSE LET q == Head(xnvme_queues_) IN
            /\ xqueue' = q
            /\ xnvme_queues_' = Tail(xnvme_queues_)
            /\ pool' = [pool EXCEPT ![q] = @ - 1]
            /\ gets' = gets + 1
            /\ ctx' = [state |-> "bound", cb |-> TRUE, cb_arg |-> q, dev |-> TRUE,
                       status |-> 0]
            /\ binds' = binds + 1
            /\ \E n \in 1 .. MaxNsid : nsid' = n
            /\ pc' = "send"
    /\ UNCHANGED <<fatal, argvars, usage, mo, exitCode, dev_, devOpens, i, queues_,
                   outstanding, termCount, anyTermErr, puts, cbCalls, prCalls, completions,
                   bufvars, err, cmdvars, decvars>>

\* ------------------------------------------------------------- submission
\* CtxOnReject handing the context back although it never completed
CtxOnRejectRelease(c) == [c EXCEPT !.state = "free"]

\* what main does with the context when the submission is rejected (lines 160-163)
CtxOnReject(c) == c

\* MgmtSend treating a rejection as fatal: main returns 1 at once
MgmtSendAbort ==
    /\ pc = "send"
    /\ submitted' = Append(submitted,
                           [opcode |-> mo, nsid |-> nsid, select |-> mos, queue |-> xqueue])
    /\ \E e \in {0} \cup ErrCodes :
         /\ err' = e
         /\ IF e = 0
            THEN /\ sendRes' = "accepted"
                 /\ ctx' = [ctx EXCEPT !.state = "inflight"]
                 /\ outstanding' = [outstanding EXCEPT ![xqueue] = @ + 1]
                 /\ pc' = "drain"
                 /\ exitCode' = exitCode
            ELSE /\ sendRes' = "rejected"
                 /\ ctx' = CtxOnReject(ctx)
                 /\ outstanding' = outstanding
                 /\ Return(1)
    /\ UNCHANGED <<fatal, argvars, usage, mo, devvars, i, queues_, xnvme_queues_,
                   pool, termCount, anyTermErr, xqueue, gets, puts, binds, cbCalls,
                   prCalls, completions, bufvars, drainRes, decvars>>

\* lines 157-163: a rejection is only reported
MgmtSend ==
    /\ pc = "send"
    /\ submitted' = Append(submitted,
                           [opcode |-> mo, nsid |-> nsid, select |-> mos, queue |-> xqueue])
    /\ \E e \in {0} \cup ErrCodes :
         /\ err' = e
         /\ IF e = 0
            THEN /\ sendRes' = "accepted"
                 /\ ctx' = [ctx EXCEPT !.state = "inflight"]
                 /\ outstanding' = [outstanding EXCEPT ![xqueue] = @ + 1]
            ELSE /\ sendRes' = "rejected"
                 /\ ctx' = CtxOnReject(ctx)
                 /\ outstanding' = outstanding
    /\ pc' = "drain"
    /\ UNCHANGED <<fatal, argvars, usage, mo, exitCode, devvars, i, queues_, xnvme_queues_,
                   pool, termCount, anyTermErr, xqueue, gets, puts, binds, cbCalls,
                   prCalls, completions, bufvars, drainRes, decvars>>

\* ------------------------------------------------------------------ drain
\* inside xnvme_queue_drain (line 166): the completion of the in-flight
\* command is observed
DrainPoke ==
    /\ pc = "drain"
    /\ outstanding[xqueue] > 0
    /\ ctx.state = "inflight"
    /\ \E s \in CplStatuses :
         ctx' = [ctx EXCEPT !.state = "completed", !.status = s]
    /\ outstanding' = [outstanding EXCEPT ![xqueue] = @ - 1]
    /\ completions' = completions + 1
    /\ UNCHANGED <<fatal, pc, argvars, usage, mo, exitCode, devvars, i, queues_,
                   xnvme_queues_, pool, termCount, anyTermErr, xqueue, gets, puts,
                   binds, cbCalls, prCalls, bufvars, err, cmdvars, decvars>>

\* the number of xnvme_queue_put_cmd_ctx calls async_cb makes (line 42)
PutsInCb == 1

\* async_cb returning after the report of a failed command, before the put
async_cbSkipOnError ==
    /\ pc = "drain"
    /\ ctx.state = "completed"
    /\ ctx.cb
    /\ cbCalls' = cbCalls + 1
    /\ IF ctx.status # 0
       THEN /\ prCalls' = prCalls + 1
            /\ ctx' = [ctx EXCEPT !.cb = FALSE]
            /\ UNCHANGED <<puts, pool>>
       ELSE /\ prCalls' = prCalls
            /\ puts' = puts + PutsInCb
            /\ pool' = [pool EXCEPT ![ctx.cb_arg] = @ + PutsInCb]
            /\ ctx' = [ctx EXCEPT !.state = "free"]
    /\ UNCHANGED <<fatal, pc, argvars, usage, mo, exitCode, devvars, i, queues_,
                   xnvme_queues_, outstanding, termCount, anyTermErr, xqueue, gets,
                   binds, completions, bufvars, err, cmdvars, decvars>>

\* lines 35-43: the callback bound to the completed context runs, reports a
\* nonzero completion status and hands the context back to the queue passed
\* as its argument
async_cb ==
    /\ pc = "drain"
    /\ ctx.state = "completed"
    /\ ctx.cb
    /\ cbCalls' = cbCalls + 1
    /\ prCalls' = prCalls + (IF ctx.status # 0 THEN 1 ELSE 0)
    /\ puts' = puts + PutsInCb
    /\ pool' = [pool EXCEPT ![ctx.cb_arg] = @ + PutsInCb]
    /\ ctx' = [ctx EXCEPT !.state = "free"]
    /\ UNCHANGED <<fatal, pc, argvars, usage, mo, exitCode, devvars, i, queues_,
                   xnvme_queues_, outstanding, termCount, anyTermErr, xqueue, gets,
                   binds, completions, bufvars, err, cmdvars, decvars>>

\* DrainReturn not waiting for the outstanding command (a single poll of
\* the queue in place of the drain)
DrainReturnNoWait ==
    /\ pc = "drain"
    /\ ctx.state # "completed"
    /\ err' = completions
    /\ drainRes' = "ok"
    /\ pc' = "report"
    /\ UNCHANGED <<fatal, argvars, usage, mo, exitCode, devvars, i, qvars, ctxvars, bufvars,
                   submitted, sendRes, decvars>>

\* xnvme_queue_drain returns the number of completions once nothing is
\* outstanding (lines 166-167)
DrainReturn ==
    /\ pc = "drain"
    /\ outstanding[xqueue] = 0
    /\ ctx.state # "completed"
    /\ err' = completions
    /\ drainRes' = "ok"
    /\ pc' = "report"
    /\ UNCHANGED <<fatal, argvars, usage, mo, exitCode, devvars, i, qvars, ctxvars, bufvars,
                   submitted, sendRes, decvars>>

\* xnvme_queue_drain fails while a command is outstanding; main only warns
\* (lines 166-169)
DrainFail ==
    /\ pc = "drain"
    /\ outstanding[xqueue] > 0
    /\ ctx.state = "inflight"
    /\ \E e \in ErrCodes : err' = e
    /\ drainRes' = "err"
    /\ pc' = "report"
    /\ UNCHANGED <<fatal, argvars, usage, mo, exitCode, devvars, i, qvars, ctxvars, bufvars,
                   submitted, sendRes, decvars>>

\* ----------------------------------------------------------------- decode
\* DecodeCond without the clamp to the 16 slots of the response
DecodeCondNoClamp(k, n) == k < n

\* the condition of the loop of line 185
DecodeCond(k, n) == k < n /\ k < RUHSS_LEN

\* lines 171-185: the descriptor count is read from the local response
\* structure, whatever it holds
Report ==
    /\ pc = "report"
    /\ \E n \in NruhsdValues :
         /\ nruhsd' = n
         /\ IF n > 0
            THEN /\ i' = 0
                 /\ pc' = IF DecodeCond(0, n) THEN "decode" ELSE "cleanup"
            ELSE /\ i' = i
                 /\ pc' = "cleanup"
    /\ UNCHANGED <<fatal, argvars, usage, mo, exitCode, devvars, qvars, ctxvars, bufvars,
                   err, cmdvars, visited>>

\* one iteration of the loop of lines 185-191
DecodeStep ==
    /\ pc = "decode"
    /\ visited' = Append(visited, i)
    /\ i' = i + 1
    /\ pc' = IF DecodeCond(i + 1, nruhsd) THEN "decode" ELSE "cleanup"
    /\ UNCHANGED <<fatal, argvars, usage, mo, exitCode, devvars, qvars, ctxvars, bufvars,
                   err, cmdvars, nruhsd>>

\* ---------------------------------------------------------------- cleanup
\* BufFree with the xnvme_buf_free call left out
BufFreeSkipped ==
    /\ pc = "cleanup"
    /\ i' = 0
    /\ pc' = "term"
    /\ UNCHANGED <<fatal, argvars, usage, mo, exitCode, devvars, qvars, ctxvars, bufvars,
                   err, cmdvars, decvars>>

\* line 195
BufFree ==
    /\ pc = "cleanup"
    /\ buf' = "freed"
    /\ bufFrees' = bufFrees + 1
    /\ i' = 0
    /\ pc' = "term"
    /\ UNCHANGED <<fatal, argvars, usage, mo, exitCode, devvars, qvars, ctxvars, err,
                   cmdvars, decvars>>

\* one iteration of the loop of lines 196-201: an error is only reported
QueueTerm ==
    /\ pc = "term"
    /\ i < MAX_NR_QUEUE
    /\ \E e \in {0} \cup ErrCodes :
         /\ err' = e
         /\ anyTermErr' = (anyTermErr \/ e # 0)
         /\ i' = AfterTerm(i, e)
    /\ termCount' = [termCount EXCEPT ![i] = @ + 1]
    /\ queues_' = [queues_ EXCEPT ![i] = "termed"]
    /\ pc' = IF i' < MAX_NR_QUEUE THEN "term" ELSE "close"
    /\ UNCHANGED <<fatal, argvars, usage, mo, exitCode, devvars, xnvme_queues_, outstanding,
                   pool, ctxvars, bufvars, cmdvars, decvars>>

\* FinalStatus turning a reported warning into a failure status
FinalStatusStrict ==
    IF sendRes = "rejected" \/ drainRes = "err" \/ anyTermErr THEN 1 ELSE 0

\* the value main returns at line 205
FinalStatus == 0

\* lines 202-205
DevClose ==
    /\ pc = "close"
    /\ dev_' = "closed"
    /\ Return(FinalStatus)
    /\ UNCHANGED <<fatal, argvars, usage, mo, devOpens, nsid, i, qvars, ctxvars, bufvars,
                   err, cmdvars, decvars>>

Next ==
    \/ ParseArgs
    \/ DevOpen
    \/ QueueInit
    \/ BufAlloc
    \/ AllocFailTerm
    \/ AllocFailClose
    \/ GetCtx
    \/ MgmtSend
    \/ DrainPoke
    \/ async_cb
    \/ DrainReturn
    \/ DrainFail
    \/ Report
    \/ DecodeStep
    \/ BufFree
    \/ QueueTerm
    \/ DevClose

Spec == Init /\ [][Next]_vars

\* the steps main takes by itself: every statement outside xnvme_queue_drain
MainStep ==
    \/ ParseArgs
    \/ DevOpen
    \/ QueueInit
    \/ BufAlloc
    \/ AllocFailTerm
    \/ AllocFailClose
    \/ GetCtx
    \/ MgmtSend
    \/ Report
    \/ DecodeStep
    \/ BufFree
    \/ QueueTerm
    \/ DevClose

\* main is single-threaded and runs on: each of its statements is eventually
\* executed, a drain with nothing outstanding returns, the callback of a
\* completed context runs within the drain, and the device eventually
\* completes an accepted command.  A failing drain is never required.
LiveSpec ==
    /\ Spec
    /\ WF_vars(MainStep)
    /\ WF_vars(DrainReturn)
    /\ WF_vars(async_cb)
    /\ WF_vars(DrainPoke)

\* ======================================================== derived predicates
\* the argument vector is an argument error (lines 58 and 78)
BadArgs ==
    \/ argc < 2
    \/ argc > 3
    \/ argc = 3 /\ argv2 \notin {"--reset", "--read-only", "-h", "--help"}

\* every xnvme_queue_init of the pool succeeded
PoolInitDone == pc \notin {"start", "open", "qinit"} /\ ~BadArgs /\ fatal \notin {"open", "qinit"}
                /\ dev_ # "null"

Created == {k \in Queues : queues_[k] # "null"}

\* ==================================================================== C1
\* C1: when xnvme_queue_init fails for queue k, every queue 0..k-1 created
\* before it has been terminated by the time main returns its error status.
C1_NoLeakOnPartialInit ==
    (pc = "exit" /\ fatal = "qinit") => \A k \in Queues : queues_[k] # "live"

\* ==================================================================== C2
\* C2: whenever the device is closed, no queue created on it is still
\* unterminated and no buffer allocated from it is still unfreed, and the
\* close is the last resource operation (main has returned).
C2_DevClosedLast ==
    dev_ = "closed" =>
        /\ \A k \in Queues : queues_[k] # "live"
        /\ buf # "live"
        /\ pc = "exit"

\* ==================================================================== C3
\* C3: a terminated queue has no command that was accepted and has not
\* completed, also after a failed drain.
C3_TermWithoutOutstanding ==
    \A k \in Queues : queues_[k] = "termed" => outstanding[k] = 0

\* ==================================================================== C4
\* C4: the context got from the queue is put back exactly once before that
\* queue is terminated, on every path on which it was got, and the context
\* is out of the pool (not available to a second get) until then.
C4_CtxReleasedBeforeTerm ==
    /\ puts <= gets
    /\ gets - puts <= 1
    /\ (xqueue # -1 /\ gets > puts) => pool[xqueue] = qdepth - 1
    /\ (xqueue # -1 /\ queues_[xqueue] = "termed") => (gets = 1 /\ puts = 1)

\* ==================================================================== C5
\* C5: once all 128 queues are initialised exactly 128 queues exist, no queue
\* is ever terminated twice, and when main returns every one of them has had
\* exactly one termination attempt, whatever the terminations returned.
C5_EachQueueTerminatedOnce ==
    /\ \A k \in Queues : termCount[k] <= 1
    /\ PoolInitDone => Cardinality(Created) = MAX_NR_QUEUE
    /\ (PoolInitDone /\ pc = "exit") => \A k \in Queues : termCount[k] = 1

\* a full run in which a termination before the last one failed (the last
\* one, whose result err holds, succeeded) and the loop went on to the end
C5_Witness ==
    /\ pc = "exit"
    /\ fatal = "none"
    /\ anyTermErr
    /\ err = 0
    /\ \A k \in Queues : termCount[k] = 1
\* ==================================================================== C6
\* C6: for every accepted command async_cb has been invoked exactly once by
\* the time xnvme_queue_drain has returned, never outside the drain call, and
\* for a rejected submission it is never invoked.
C6_CallbackOncePerAccepted ==
    /\ (sendRes = "accepted" /\ drainRes # "none") => cbCalls = 1
    /\ (sendRes = "accepted" /\ drainRes = "none" /\ pc # "drain") => cbCalls = 0
    /\ sendRes # "accepted" => cbCalls = 0

\* ==================================================================== C7
\* C7: the context changes state only along free -> bound -> in-flight ->
\* completed -> free; callback, argument and device are attached once, before
\* the submission; a completion is observed at most once and a released
\* context has completed exactly once; a release is made only by async_cb, on
\* a completed context, and never twice.
CtxOrder ==
    {<<"free", "bound">>, <<"bound", "inflight">>,
     <<"inflight", "completed">>, <<"completed", "free">>}

C7_CtxStep ==
    /\ ctx'.state # ctx.state => <<ctx.state, ctx'.state>> \in CtxOrder
    /\ ctx'.state = "inflight" /\ ctx.state # "inflight" =>
           ctx.cb /\ ctx.dev /\ ctx.cb_arg = xqueue /\ binds = 1 /\ binds' = 1
    /\ puts' # puts =>
           /\ puts' = puts + 1
           /\ cbCalls' = cbCalls + 1
           /\ ctx.state = "completed"
           /\ ctx'.state = "free"
    /\ (ctx.state = "completed" /\ ctx'.state = "free") => puts' = puts + 1
    /\ completions' # completions =>
           completions' = completions + 1 /\ ctx.state = "inflight"
                                          /\ ctx'.state = "completed"

C7_CtxInv ==
    /\ binds <= 1
    /\ completions <= 1
    /\ puts <= 1
    /\ ctx.state # "free" => binds = 1
    /\ puts = 1 => completions = 1 /\ binds = 1

C8_BufFreedOnceBeforeClose ==
    /\ bufFrees = (IF buf = "freed" THEN 1 ELSE 0)
    /\ dev_ = "closed" => buf # "live"
    /\ buf = "live" => dev_ = "open"
    /\ (pc = "exit" /\ buf # "none") => (buf = "freed" /\ bufFrees = 1)
    /\ fatal # "none" => (buf = "none" /\ bufFrees = 0)

\* a run that allocated the buffer, drained with an error and returned
C8_Witness ==
    /\ pc = "exit"
    /\ drainRes = "err"
    /\ buf = "freed"
    /\ bufFrees = 1
    /\ dev_ = "closed"

\* ==================================================================== C9
\* C9: main returns 1 exactly when the arguments are bad or device open, a
\* queue init or the buffer allocation failed, and 0 otherwise; a run that
\* got past the buffer allocation returns 0 whatever the submission, the
\* drain and the terminations returned.
C9_ExitCode ==
    pc = "exit" =>
        /\ exitCode = (IF BadArgs \/ fatal \in {"open", "qinit", "alloc"} THEN 1 ELSE 0)
        /\ buf # "none" => exitCode = 0

\* status 0 although the submission was rejected and a termination failed
C9_Witness ==
    /\ pc = "exit"
    /\ exitCode = 0
    /\ sendRes = "rejected"
    /\ anyTermErr

\* =================================================================== C10
\* C10: after a failed device open main has returned 1 with no queue created,
\* no buffer allocated, no context got and nothing submitted; after a failed
\* buffer allocation no context is got, nothing is submitted or drained, no
\* queue is terminated twice, the device is closed only after every one of
\* the 128 queues has been terminated once, and main returns 1.
C10_AbortAndCleanup ==
    /\ fatal = "open" =>
           /\ pc = "exit" /\ exitCode = 1
           /\ Created = {}
           /\ \A k \in Queues : termCount[k] = 0
           /\ buf = "none"
           /\ gets = 0 /\ submitted = <<>> /\ drainRes = "none"
    /\ fatal = "alloc" =>
           /\ pc \in {"allocfail", "allocfailclose", "exit"}
           /\ Cardinality(Created) = MAX_NR_QUEUE
           /\ gets = 0 /\ submitted = <<>> /\ sendRes = "none" /\ drainRes = "none"
           /\ \A k \in Queues : termCount[k] <= 1
           /\ dev_ = "closed" => \A k \in Queues : termCount[k] = 1
           /\ pc = "exit" => (dev_ = "closed" /\ exitCode = 1)
           /\ pc # "exit" => (dev_ = "open" /\ exitCode = -1)

\* the run that failed to allocate the buffer has returned
C10_Witness ==
    /\ pc = "exit"
    /\ fatal = "alloc"
    /\ exitCode = 1
    /\ dev_ = "closed"
    /\ \A k \in Queues : queues_[k] = "termed"
\* =================================================================== C11
\* the argument vector asks for help (line 75)
HelpAsked == argc = 3 /\ argv2 \in {"-h", "--help"}

\* C11: for an argument error or a help request main prints the usage once
\* and returns (1 for an error, 0 for help) straight from argument parsing:
\* xnvme_dev_open is never called and no queue, buffer, context or command
\* is ever created.
C11_NoDeviceOnUsage ==
    (BadArgs \/ HelpAsked) =>
        /\ pc \in {"start", "exit"}
        /\ devOpens = 0 /\ dev_ = "null"
        /\ Created = {} /\ xnvme_queues_ = <<>>
        /\ buf = "none"
        /\ gets = 0 /\ submitted = <<>> /\ sendRes = "none" /\ drainRes = "none"
        /\ pc = "exit" => (usage = 1 /\ exitCode = (IF HelpAsked THEN 0 ELSE 1))

\* an unrecognised flag has been answered with the usage and status 1
C11_Witness ==
    /\ pc = "exit"
    /\ argc = 3 /\ argv2 = "--bogus"
    /\ usage = 1
    /\ exitCode = 1
    /\ devOpens = 0

\* =================================================================== C12
Min(a, b) == IF a < b THEN a ELSE b

\* the slots 0, 1, ..., n-1 in index order
FirstSlots(n) == [j \in 1 .. n |-> j - 1]

\* C12: the decode loop reads slots in index order 0,1,2,..., never a slot
\* with index >= 16 and never more than min(nruhsd, 16) of them; once the
\* loop is over it has read exactly min(nruhsd, 16) slots, none for nruhsd = 0.
C12_DecodeClamped ==
    /\ \A j \in 1 .. Len(visited) : visited[j] = j - 1 /\ visited[j] < 16
    /\ nruhsd = -1 => visited = <<>>
    /\ nruhsd >= 0 => Len(visited) <= Min(nruhsd, 16)
    /\ pc = "decode" => (nruhsd > 0 /\ i = Len(visited) /\ i < Min(nruhsd, 16))
    /\ (nruhsd >= 0 /\ pc \in {"cleanup", "term", "close", "exit"}) =>
           visited = FirstSlots(Min(nruhsd, 16))

\* a count of 200 has been decoded into exactly the 16 slots
C12_Witness ==
    /\ pc = "cleanup"
    /\ nruhsd = 200
    /\ visited = FirstSlots(16)
\* =================================================================== C13
\* drain returned without error only with nothing outstanding, and outside
\* the drain main always has a statement to execute
C13_DrainInv ==
    /\ drainRes = "ok" => outstanding[xqueue] = 0
    /\ pc \notin {"drain", "exit"} => ENABLED MainStep

\* main leaves the drain only through its return: with an error, or without
\* one and then with nothing outstanding; while the accepted command is
\* neither completed nor the drain failed, main stays in the drain
C13_DrainStep ==
    /\ (pc = "drain" /\ pc' # "drain") =>
           \/ drainRes' = "err"
           \/ drainRes' = "ok" /\ outstanding'[xqueue] = 0
    /\ (pc = "drain" /\ outstanding[xqueue] > 0 /\ completions' = completions
          /\ drainRes' = drainRes) => pc' = "drain"

C14_QueueInv ==
    /\ xqueue \in {-1, 0}
    /\ gets > 0 => xqueue = 0
    /\ xqueue = 0 => xnvme_queues_ = [j \in 1 .. MAX_NR_QUEUE - 1 |-> j]
    /\ ctx.cb_arg \in {-1, xqueue}
    /\ \A j \in 1 .. Len(submitted) : submitted[j].queue = 0
    /\ \A k \in Queues \ {0} : outstanding[k] = 0 /\ pool[k] \in {0, qdepth}
    /\ pc = "drain" => xqueue = 0

C14_QueueStep ==
    /\ xqueue' # xqueue =>
           /\ xnvme_queues_ # <<>>
           /\ xqueue' = Head(xnvme_queues_)
           /\ xnvme_queues_' = Tail(xnvme_queues_)
    /\ \A k \in Queues :
           (pool'[k] # pool[k] /\ pool[k] # 0) \/ outstanding'[k] # outstanding[k]
               => k = xqueue'

C14_OnlyHeadQueueUsed == [] C14_QueueInv /\ [][C14_QueueStep]_vars

\* a run that used queue 0 for an accepted command and left the other 127
\* queues in the FIFO
C14_Witness ==
    /\ pc = "exit"
    /\ xqueue = 0
    /\ sendRes = "accepted"
    /\ Len(xnvme_queues_) = MAX_NR_QUEUE - 1
    /\ gets = 1
\* =================================================================== C15
\* the operation code the argument vector asks for
WantedCode == IF argc = 3 /\ argv2 = "--read-only" THEN 16 ELSE 2

\* C15: at most one command is ever submitted, also after a rejection; it
\* carries code 0x10 for --read-only and 0x02 for --reset or no flag, select
\* 1 and the namespace id read from the open device; once main is past the
\* submission exactly one command has been submitted.
C15_OneCommand ==
    /\ Len(submitted) <= 1
    /\ \A j \in 1 .. Len(submitted) :
           /\ submitted[j].opcode = WantedCode
           /\ submitted[j].opcode \in {2, 16}
           /\ submitted[j].select = 1
           /\ submitted[j].nsid = nsid
           /\ nsid \in 1 .. MaxNsid
    /\ sendRes # "none" => Len(submitted) = 1
    /\ (pc = "exit" /\ buf # "none") => Len(submitted) = 1

\* a rejected --read-only command, not submitted again before main returned
C15_Witness ==
    /\ pc = "exit"
    /\ argv2 = "--read-only"
    /\ sendRes = "rejected"
    /\ Len(submitted) = 1
    /\ submitted[1].opcode = 16
\* =================================================================== C16
\* after a rejection nothing is in flight, no callback runs and the drain
\* never fails; when main has returned, the drain returned without error,
\* the buffer is freed, every queue terminated and the device closed
C16_RejectInv ==
    sendRes = "rejected" =>
        /\ outstanding[xqueue] = 0
        /\ ctx.state = "bound"
        /\ cbCalls = 0 /\ completions = 0 /\ puts = 0
        /\ drainRes # "err"
        /\ pc \in {"drain", "report", "decode", "cleanup", "term", "close", "exit"}
        /\ (pc # "drain") = (drainRes = "ok")
        /\ pc = "report" => err = 0
        /\ pc \in {"term", "close", "exit"} => buf = "freed"
        /\ pc \in {"close", "exit"} => \A k \in Queues : termCount[k] = 1
        /\ pc = "exit" => (dev_ = "closed" /\ exitCode = 0)

\* the drain of the queue with nothing in flight is one step: it returns 0
C16_RejectStep ==
    (sendRes = "rejected" /\ pc = "drain") =>
        (pc' = "report" /\ drainRes' = "ok" /\ err' = 0 /\ cbCalls' = cbCalls)

\* C16: a rejected submission is followed by the drain of the queue, which
\* has nothing in flight, returns 0 at once and runs no callback, and then
\* by the free of the buffer, the termination of all queues and the close of
\* the device: the run goes on to the return of main.
C16_RejectContinues ==
    /\ [] C16_RejectInv
    /\ [][C16_RejectStep]_vars
    /\ (sendRes = "rejected") ~>
           (pc = "exit" /\ drainRes = "ok" /\ buf = "freed" /\ dev_ = "closed"
              /\ \A k \in Queues : queues_[k] = "termed")

\* the drain after a rejection has just returned zero completions
C16_Witness ==
    /\ sendRes = "rejected"
    /\ pc = "report"
    /\ drainRes = "ok"
    /\ err = 0
    /\ cbCalls = 0
\* =================================================================== C17
\* every run of the callback puts the context back, into the pool of the
\* queue it was got from, which is the queue bound as callback argument;
\* the completion status decides the report and nothing else
C17_CbStep ==
    cbCalls' # cbCalls =>
        /\ cbCalls' = cbCalls + 1
        /\ ctx.cb_arg = xqueue
        /\ puts' = puts + 1
        /\ pool' = [pool EXCEPT ![xqueue] = pool[xqueue] + 1]
        /\ ctx'.state = "free"
        /\ prCalls' = prCalls + (IF ctx.status = 0 THEN 0 ELSE 1)

C17_CbInv ==
    /\ puts = cbCalls
    /\ prCalls <= cbCalls
    /\ cbCalls = 1 => (pool[xqueue] = qdepth /\ prCalls = (IF ctx.status = 0 THEN 0 ELSE 1))

\* C17: whenever async_cb runs it releases the context to the queue the
\* context was acquired from (its callback argument), for a zero and for a
\* nonzero completion status; a nonzero status adds the report only.
C17_CbReleases == [] C17_CbInv /\ [][C17_CbStep]_vars

\* the callback has run for a command that completed with a nonzero status
C17_Witness ==
    /\ cbCalls = 1
    /\ ctx.status # 0
    /\ prCalls = 1
    /\ puts = 1
    /\ ctx.state = "free"
    /\ pool[0] = qdepth
\* =================================================================== C18
\* C18: the decoder reads the response structure only after the command was
\* accepted and its completion was seen by the callback inside a drain that
\* returned without error; never after a rejection, a failed drain or with
\* the command still in flight.
C18_ReadOnlyWhenAvailable ==
    nruhsd # -1 =>
        /\ sendRes = "accepted"
        /\ drainRes = "ok"
        /\ cbCalls = 1
        /\ outstanding[xqueue] = 0

\* =================================================================== C19
\* C19: when main is about to take the front of the FIFO, the FIFO holds the
\* 128 created queues in creation order and has never been popped, every
\* queue has all its 128 contexts free and nothing was got or submitted
\* before; so main never reaches the undefined front() of an empty FIFO or
\* the dereference of a null context, and the context it gets is a real one
\* of queue 0.
C19_AcquireNeverEmpty ==
    /\ pc # "crash"
    /\ pc = "getctx" =>
           /\ xnvme_queues_ = [j \in 1 .. MAX_NR_QUEUE |-> j - 1]
           /\ \A k \in Queues : queues_[k] = "live" /\ pool[k] = qdepth
                                  /\ outstanding[k] = 0
           /\ xqueue = -1 /\ gets = 0 /\ submitted = <<>>
    /\ pc = "send" =>
           /\ gets = 1 /\ xqueue = 0
           /\ pool[0] = qdepth - 1
           /\ ctx.cb /\ ctx.dev /\ ctx.cb_arg = 0

\* main has taken queue 0 and a context of it and is about to submit
C19_Witness ==
    /\ pc = "send"
    /\ gets = 1
    /\ xqueue = 0
    /\ pool[0] = qdepth - 1
    /\ Len(xnvme_queues_) = MAX_NR_QUEUE - 1
====
